---- MODULE Spec2Model ----
(***************************************************************************)
(* ConsoleController (src/ConsoleController.cpp): a console handle with    *)
(* reference-counted terminal setup, key reading, a line editor with       *)
(* manual backspace handling, cursor control and colours.                  *)
(*                                                                         *)
(* The source has two builds, selected by _WIN32.  The variable platform   *)
(* fixes the build in the initial state; every operation follows the       *)
(* branch of the #ifdef that its build compiles.                           *)
(***************************************************************************)
EXTENDS Integers, Sequences, FiniteSets, TLC

(***************************************************************************)
(* Bounds of the model.                                                    *)
(***************************************************************************)
Cols == 2            \* window width  (getWindowSize().x)
Rows == 2            \* window height (getWindowSize().y)
MaxTyped == 3        \* keys pressed in a run, named inputs aside
MaxInstances == 2    \* handles alive at once
MaxSessions == 2     \* handle constructions that set the console up
MaxOps == 2          \* key-reading calls in a run of the key primitives
MaxColorId == 1      \* largest colour id of the model (255 in the source)
MaxCalls == 3        \* throttle calls in a run
MaxTicks == 2        \* times the clock advances between throttle calls

(***************************************************************************)
(* Character codes the source names.                                       *)
(***************************************************************************)
BS == 8              \* '\b'
NL == 10             \* '\n'
CR == 13             \* '\r'
SP == 32             \* ' '
PREFIX0 == 0         \* first byte of a special key
PREFIXE0 == 224      \* 0xE0, the other first byte of a special key
ERR == -1            \* curses: getch() found no key
KEY_UP == 259        \* curses: what getch() returns for the up arrow under keypad()

\* Codes the source does not name, used as inputs: BEL, letters a b c x z, F1.
BEL == 6 + 1
ChA == 96 + 1
ChB == 96 + 2
ChC == 96 + 3
ChX == 96 + 24
ChZ == 96 + 26
ScanF1 == 58 + 1
Caret == 93 + 1

(***************************************************************************)
(* The special key codes of ConsoleController.h (not part of the sources   *)
(* at hand): sentinels distinct from every character and from 0.           *)
(***************************************************************************)
ARROW_UP == 1001
ARROW_DOWN == 1002
ARROW_LEFT == 1003
ARROW_RIGHT == 1004
Arrows == {ARROW_UP, ARROW_DOWN, ARROW_LEFT, ARROW_RIGHT}

VARIABLES
    platform,        \* "WIN32" or "POSIX": the build
    classInstances,  \* static int ConsoleController::classInstances
    rawMode,         \* the console is set up (initscr .. endwin)
    setups,          \* times the set-up block of the constructor ran
    teardowns,       \* times the tear-down block of the destructor ran
    screen,          \* screen[y][x]: the character shown in each cell
    cur,             \* the cursor, [x |-> column, y |-> row]
    pending,         \* bytes typed and not yet read (the input queue)
    typed,           \* every key pressed so far, in order (a key is its bytes)
    pc,              \* where the handle's current call stands
    delineators,     \* waitForInput: the delimiter set of the call
    str,             \* waitForInput: the buffer
    input,           \* waitForInput: the keystroke just read (char input)
    hist,            \* waitForInput: the keystrokes read by the loop so far
    pos,             \* waitForInput: the cursor captured before the keystroke
    drained,         \* waitForInput: the keystrokes read after the loop
    startPos,        \* waitForInput: the cursor when the call began
    ev,              \* what the last step did
    lastRet,         \* value returned by the last key-reading call
    retUnspec,       \* that value came from a path that returns no value
    headBefore,      \* bytes that were pending when the last key call began
    stale,           \* waitForNewKey: pending bytes that predate the call
    prep,            \* what the application has done to the screen so far
    ops,             \* key-reading calls made so far
    moveTargets,     \* waitForInput: the cells the last turn moved the cursor to
    match,           \* waitForKey(int match): the code waited for
    reads,           \* waitForKey(int match): the codes read by the call so far
    throttleInitialized, \* bool throttleInitialized of the handle
    throttleLast,    \* throttleLast of the handle, in clock() ticks
    clock,           \* the value clock() returns now
    now,             \* throttle: the value clock() returned to the last call
    slept,           \* throttle: the last call called sleepMs
    sleptFor,        \* throttle: the argument of that sleepMs, in milliseconds
    interval,        \* throttle: the argument ms of the last call
    calls,           \* throttle calls made so far
    ticks,           \* times the clock advanced between calls
    tracked,         \* the clock advanced by the slept time in every sleep
    colors,          \* static COLOR colors[256] (console build)
    foreBoldFlags,   \* static bool foreBoldFlags[256] (curses build)
    pairs,           \* the colour pairs of curses, as init_pair left them
    attr,            \* the text attribute in effect
    registered,      \* the descriptor initColor registered last, per id
    active           \* the id of the last color() call

vars == <<platform, classInstances, rawMode, setups, teardowns, screen, cur,
          pending, typed, pc, delineators, str, input, hist, pos, drained,
          startPos,
          ev, lastRet, retUnspec, headBefore, stale, prep, ops, moveTargets,
          match, reads,
          throttleInitialized, throttleLast, clock, now, slept, sleptFor,
          interval, calls, ticks, tracked,
          colors, foreBoldFlags, pairs, attr, registered, active>>

lifeVars == <<classInstances, rawMode, setups, teardowns>>
termVars == <<screen, cur>>
lineVars == <<delineators, str, input, hist, pos, drained, startPos, moveTargets>>
keyVars  == <<lastRet, retUnspec, headBefore, stale, ops>>
matchVars == <<match, reads>>
thrVars  == <<throttleLast, clock, now, slept, sleptFor, interval, calls, ticks,
              tracked>>
colVars  == <<colors, foreBoldFlags, pairs, attr, registered, active>>
auxVars  == <<matchVars, throttleInitialized, thrVars, colVars>>

(***************************************************************************)
(* char: the value an int takes when stored in a char, which is 8 bits     *)
(* wide and signed under the default settings of both builds' compilers.   *)
(***************************************************************************)
ToChar(i) == LET m == i % 256 IN IF m >= 128 THEN m - 256 ELSE m

Front(s) == SubSeq(s, 1, Len(s) - 1)

IsPrefix(s, t) == Len(s) <= Len(t) /\ SubSeq(t, 1, Len(s)) = s

(***************************************************************************)
(* Cursor and geometry.                                                    *)
(***************************************************************************)
XY(x, y) == [x |-> x, y |-> y]

getWindowSize == XY(Cols, Rows)

InWindow(p) == p.x >= 0 /\ p.x < getWindowSize.x /\ p.y >= 0 /\ p.y < getWindowSize.y

BlankRow == [x \in 0..(Cols - 1) |-> SP]

BlankScreen == [y \in 0..(Rows - 1) |-> BlankRow]

\* moveCursor(x, y): move(y, x) and SetConsoleCursorPosition both refuse a
\* position outside the window and leave the cursor where it was.
moveCursor(c, x, y) == IF InWindow(XY(x, y)) THEN XY(x, y) ELSE c

\* The terminal scrolls by one line: every row moves up, the last is blank.
ScrollUp(s) == [y \in 0..(Rows - 1) |-> IF y < Rows - 1 THEN s[y + 1] ELSE BlankRow]

\* One visible character is drawn at the cursor, which then advances: to the
\* next column, or to the start of the next row at the right edge.  In the
\* last cell the console (WIN32) scrolls; a curses window without scrollok
\* keeps the cursor in the last cell.
PutGlyph(t, g, plat) ==
    LET s1 == [t.s EXCEPT ![t.c.y][t.c.x] = g]
    IN  IF t.c.x < Cols - 1 THEN [s |-> s1, c |-> XY(t.c.x + 1, t.c.y)]
        ELSE IF t.c.y < Rows - 1 THEN [s |-> s1, c |-> XY(0, t.c.y + 1)]
        ELSE IF plat = "WIN32" THEN [s |-> ScrollUp(s1), c |-> XY(0, Rows - 1)]
        ELSE [s |-> s1, c |-> t.c]

\* A line feed: the cursor goes to the start of the next row (curses first
\* clears the rest of the row); on the last row the console scrolls and a
\* curses window stays on the row.
PutNewline(t, plat) ==
    LET s1 == IF plat = "POSIX"
              THEN [t.s EXCEPT ![t.c.y] = [x \in 0..(Cols - 1) |->
                                             IF x >= t.c.x THEN SP ELSE t.s[t.c.y][x]]]
              ELSE t.s
    IN  IF t.c.y < Rows - 1 THEN [s |-> s1, c |-> XY(0, t.c.y + 1)]
        ELSE IF plat = "WIN32" THEN [s |-> ScrollUp(s1), c |-> XY(0, Rows - 1)]
        ELSE [s |-> s1, c |-> XY(0, t.c.y)]

\* A backspace written to the terminal moves the cursor and draws nothing.
\* Away from the left edge it moves one column left; at the left edge the
\* terminal keeps the cursor or takes it to the end of the row above.
PutBackspace(t) ==
    IF t.c.x > 0 THEN {[s |-> t.s, c |-> XY(t.c.x - 1, t.c.y)]}
    ELSE {[s |-> t.s, c |-> t.c]} \cup
         (IF t.c.y > 0 THEN {[s |-> t.s, c |-> XY(Cols - 1, t.c.y - 1)]} ELSE {})

\* output(char): the outcomes of writing character ch on terminal state
\* t = [s |-> screen, c |-> cursor].  The console rings the bell without
\* moving; curses draws a control character as ^X and printw("%s") of a
\* NUL draws nothing; every other character is drawn as one glyph.
output(t, ch, plat) ==
    IF ch = BS THEN PutBackspace(t)
    ELSE IF ch = NL THEN {PutNewline(t, plat)}
    ELSE IF ch = CR THEN {[s |-> t.s, c |-> XY(0, t.c.y)]}
    ELSE IF ch = 0 THEN (IF plat = "POSIX" THEN {t} ELSE {PutGlyph(t, SP, plat)})
    ELSE IF ch = BEL /\ plat = "WIN32" THEN {t}
    ELSE IF ch > 0 /\ ch < SP /\ plat = "POSIX"
         THEN {PutGlyph(PutGlyph(t, Caret, plat), ch + 64, plat)}
    ELSE {PutGlyph(t, ch, plat)}

\* cls(): the screen is blank and the cursor is at the origin.
cls == [s |-> BlankScreen, c |-> XY(0, 0)]

(***************************************************************************)
(* Key reading.  A read has a set of outcomes                              *)
(*   [ret |-> value returned, rest |-> queue left, unspec |-> BOOLEAN];    *)
(* the empty set means the call blocks on the queue as it stands.          *)
(***************************************************************************)
\* Values a function that ends without a return statement may hand back,
\* besides the value last computed.
GarbageInts == {0}

\* A translation that does not test for ERR first.
posix_translateKeyNoErr(ch) ==
    IF ch = CR THEN {[ret |-> NL, unspec |-> FALSE]}
    ELSE {[ret |-> v, unspec |-> TRUE] : v \in {ch} \cup GarbageInts}

\* posix_translateKey, given what getch() returned.  Only ERR and '\r' have
\* a return statement; for every other key control reaches the closing brace
\* of a function returning int, and the value is unspecified.
posix_translateKey(ch) ==
    IF ch = ERR THEN {[ret |-> 0, unspec |-> FALSE]}
    ELSE IF ch = CR THEN {[ret |-> NL, unspec |-> FALSE]}
    ELSE {[ret |-> v, unspec |-> TRUE] : v \in {ch} \cup GarbageInts}

\* getch() under timeout(-1) (blocking) or timeout(0).
posix_read(q, blocking) ==
    IF q = <<>>
    THEN (IF blocking THEN {}
          ELSE {[ret |-> o.ret, rest |-> q, unspec |-> o.unspec] :
                    o \in posix_translateKey(ERR)})
    ELSE {[ret |-> o.ret, rest |-> Tail(q), unspec |-> o.unspec] :
              o \in posix_translateKey(Head(q))}

\* if (result == 0 || result == 0xE0), with result a char.
IsSpecialPrefix(result) == result = PREFIX0 \/ result = PREFIXE0

\* switch (_getch()) of the WIN32 waitForKey(); no case falls to return result.
SwitchArrow(second, result) ==
    IF second \in {65, 72} THEN ARROW_UP
    ELSE IF second \in {66, 80} THEN ARROW_DOWN
    ELSE IF second \in {67, 77} THEN ARROW_RIGHT
    ELSE IF second \in {68, 75} THEN ARROW_LEFT
    ELSE result

\* The WIN32 waitForKey(): char result = _getch(); ...
win_waitForKey(q) ==
    IF q = <<>> THEN {}
    ELSE LET result == ToChar(Head(q))
         IN  IF result = CR
             THEN {[ret |-> NL, rest |-> Tail(q), unspec |-> FALSE]}
             ELSE IF IsSpecialPrefix(result)
             THEN (IF Len(q) < 2 THEN {}
                   ELSE {[ret |-> SwitchArrow(q[2], result),
                          rest |-> Tail(Tail(q)), unspec |-> FALSE]})
             ELSE {[ret |-> result, rest |-> Tail(q), unspec |-> FALSE]}

waitForKey(q, plat) ==
    IF plat = "WIN32" THEN win_waitForKey(q) ELSE posix_read(q, TRUE)

\* getKey(): if (_kbhit()) return waitForKey(); return 0;  or timeout(0).
getKey(q, plat) ==
    IF plat = "WIN32"
    THEN (IF q # <<>> THEN win_waitForKey(q)
          ELSE {[ret |-> 0, rest |-> q, unspec |-> FALSE]})
    ELSE posix_read(q, FALSE)

\* clearKey(): while (getKey()); -- the queues the loop can leave behind.
RECURSIVE clearKey(_, _)
clearKey(q, plat) ==
    UNION { IF o.ret = 0 THEN {o.rest} ELSE clearKey(o.rest, plat) :
                o \in getKey(q, plat) }

\* echoKey(): int i = waitForKey(); output((char)i); return i;
\* outcomes [ret, rest, unspec, t] with t the terminal after the echo.
echoKey(q, t, plat) ==
    UNION { {[ret |-> k.ret, rest |-> k.rest, unspec |-> k.unspec, t |-> t2] :
                t2 \in output(t, ToChar(k.ret), plat)} :
            k \in waitForKey(q, plat) }

(***************************************************************************)
(* Colours.  The colour names are those of <curses.h>, which the console   *)
(* build takes from ConsoleController.h with the same values.  ColorIds    *)
(* stands for the ids 0..255 of the tables.                                *)
(***************************************************************************)
COLOR_BLACK == 0
COLOR_RED == 1
COLOR_GREEN == 2
COLOR_YELLOW == 3
COLOR_BLUE == 4
COLOR_MAGENTA == 5
COLOR_CYAN == 6
COLOR_WHITE == 7
StandardColors == {COLOR_BLACK, COLOR_RED, COLOR_GREEN, COLOR_YELLOW, COLOR_BLUE,
                   COLOR_MAGENTA, COLOR_CYAN, COLOR_WHITE}

ColorIds == 0..MaxColorId

\* struct COLOR {foreground, background, foreBold, backBold}
COLOR(fg, bg, fBold, bBold) ==
    [foreground |-> fg, background |-> bg, foreBold |-> fBold, backBold |-> bBold]

\* colors[i] = {0, 0, false, false};
DefaultColor == COLOR(0, 0, FALSE, FALSE)

DefaultColors == [i \in ColorIds |-> DefaultColor]

\* foreBoldFlags[i] = false;
DefaultBoldFlags == [i \in ColorIds |-> FALSE]

\* The pairs 1..256 of curses before any init_pair: colour 0 on colour 0.
DefaultPairs == [n \in 1..(MaxColorId + 1) |-> [fg |-> 0, bg |-> 0]]

\* The attribute a console starts with (light grey on black), and A_NORMAL
\* with pair 0 under curses: the terminal's default colours.
DefaultAttr(plat) ==
    IF plat = "WIN32"
    THEN {"FOREGROUND_RED", "FOREGROUND_GREEN", "FOREGROUND_BLUE"}
    ELSE [pair |-> 0, bold |-> FALSE]

NoneRegistered == [i \in ColorIds |-> {}]

\* What the other members and statics hold when the program starts.
AuxInit ==
    /\ moveTargets = {}
    /\ match = 0
    /\ reads = <<>>
    /\ throttleInitialized = FALSE
    /\ throttleLast = 0
    /\ clock = 0
    /\ now = 0
    /\ slept = FALSE
    /\ sleptFor = 0
    /\ interval = 0
    /\ calls = 0
    /\ ticks = 0
    /\ tracked = TRUE
    /\ colors = DefaultColors
    /\ foreBoldFlags = DefaultBoldFlags
    /\ pairs = DefaultPairs
    /\ attr = DefaultAttr(platform)
    /\ registered = NoneRegistered
    /\ active = 0

(***************************************************************************)
(* Initial states.                                                         *)
(***************************************************************************)
\* Static initialisation: no handle exists yet.
Init0 ==
    /\ platform \in {"WIN32", "POSIX"}
    /\ classInstances = 0
    /\ rawMode = FALSE
    /\ setups = 0
    /\ teardowns = 0
    /\ screen = BlankScreen
    /\ cur = XY(0, 0)
    /\ pending = <<>>
    /\ typed = <<>>
    /\ pc = "idle"
    /\ delineators = <<>>
    /\ str = <<>>
    /\ input = 0
    /\ hist = <<>>
    /\ pos = XY(0, 0)
    /\ drained = <<>>
    /\ startPos = XY(0, 0)
    /\ ev = "init"
    /\ lastRet = 0
    /\ retUnspec = FALSE
    /\ headBefore = <<>>
    /\ stale = 0
    /\ prep = "fresh"
    /\ ops = 0
    /\ AuxInit

(***************************************************************************)
(* Lifecycle.                                                              *)
(***************************************************************************)
\* A set-up test that is off by one: it also holds with one handle alive.
FirstInstanceOffByOne(n) == n <= 1

\* if (classInstances == 0) in the constructor.
FirstInstance(n) == n = 0

\* if (classInstances == 0) in the destructor, after the decrement.
LastInstance(n) == n = 0

\* for (int i = 0; i < 256; i++) of the set-up block: the console build
\* clears colors[], the curses build clears foreBoldFlags[]; start_color()
\* is called again, and a curses library may or may not forget its pairs.
ResetColors ==
    IF platform = "WIN32"
    THEN /\ colors' = DefaultColors
         /\ UNCHANGED <<foreBoldFlags, pairs>>
    ELSE /\ foreBoldFlags' = DefaultBoldFlags
         /\ pairs' \in {pairs, DefaultPairs}
         /\ UNCHANGED colors

\* ConsoleController(): set the console up on the first allocation only.
Construct ==
    /\ pc = "idle"
    /\ classInstances < MaxInstances
    /\ FirstInstance(classInstances) => setups < MaxSessions
    /\ IF FirstInstance(classInstances)
       THEN /\ rawMode' = TRUE
            /\ setups' = setups + 1
            /\ screen' = cls.s
            /\ cur' = cls.c
       ELSE UNCHANGED <<rawMode, setups, screen, cur>>
    /\ IF FirstInstance(classInstances)
       THEN /\ ResetColors
            /\ registered' = NoneRegistered
       ELSE UNCHANGED <<colors, foreBoldFlags, pairs, registered>>
    /\ throttleInitialized' = FALSE
    /\ classInstances' = classInstances + 1
    /\ ev' = "construct"
    /\ UNCHANGED <<platform, teardowns, pending, typed, pc, lineVars, keyVars, prep,
                   matchVars, thrVars, attr, active>>

\* ~ConsoleController(): a handle that exists is destroyed.
Destroy ==
    /\ pc = "idle"
    /\ classInstances > 0
    /\ classInstances' = classInstances - 1
    /\ IF LastInstance(classInstances - 1)
       THEN /\ rawMode' = FALSE
            /\ teardowns' = teardowns + 1
            /\ screen' = cls.s
            /\ cur' = cls.c
       ELSE UNCHANGED <<rawMode, teardowns, screen, cur>>
    /\ ev' = "destroy"
    /\ UNCHANGED <<platform, auxVars, setups, pending, typed, pc, lineVars, keyVars, prep>>

\* The state after the first handle has been constructed.
Init ==
    /\ platform \in {"WIN32", "POSIX"}
    /\ classInstances = 1
    /\ rawMode = TRUE
    /\ setups = 1
    /\ teardowns = 0
    /\ screen = cls.s
    /\ cur = cls.c
    /\ pending = <<>>
    /\ typed = <<>>
    /\ pc = "idle"
    /\ delineators = <<>>
    /\ str = <<>>
    /\ input = 0
    /\ hist = <<>>
    /\ pos = XY(0, 0)
    /\ drained = <<>>
    /\ startPos = XY(0, 0)
    /\ ev = "construct"
    /\ lastRet = 0
    /\ retUnspec = FALSE
    /\ headBefore = <<>>
    /\ stale = 0
    /\ prep = "fresh"
    /\ ops = 0
    /\ AuxInit

(***************************************************************************)
(* What the application does with a handle before it reads: it may write   *)
(* a character and then place the cursor.                                  *)
(***************************************************************************)
\* output(c) called by the application.
AppOutput(c) ==
    /\ pc = "idle"
    /\ classInstances > 0
    /\ prep = "fresh"
    /\ \E t \in output([s |-> screen, c |-> cur], c, platform) :
          /\ screen' = t.s
          /\ cur' = t.c
    /\ prep' = "written"
    /\ ev' = "output"
    /\ UNCHANGED <<platform, auxVars, lifeVars, pending, typed, pc, lineVars, keyVars>>

\* moveCursor(x, y) called by the application.
AppMoveCursor(x, y) ==
    /\ pc = "idle"
    /\ classInstances > 0
    /\ prep \in {"fresh", "written"}
    /\ cur' = moveCursor(cur, x, y)
    /\ prep' = "placed"
    /\ ev' = "moveCursor"
    /\ UNCHANGED <<platform, auxVars, lifeVars, screen, pending, typed, pc, lineVars,
                   keyVars>>

(***************************************************************************)
(* The keyboard.                                                           *)
(***************************************************************************)
\* Inputs the properties name, which may run past MaxTyped.
NamedInputs ==
    { << <<ChA>>, <<ChB>>, <<ChC>>, <<NL>> >>,
      << <<ChA>>, <<ChB>>, <<BS>>, <<BS>>, <<ChC>>, <<NL>> >> }

\* A key is pressed: its bytes join the queue.  Keys of the general
\* alphabet are pressed up to MaxTyped times; any key continues a named input.
KeyArrives(k, general) ==
    /\ \/ general /\ Len(typed) < MaxTyped
       \/ \E e \in NamedInputs : IsPrefix(Append(typed, k), e)
    /\ pending' = pending \o k
    /\ typed' = Append(typed, k)
    /\ ev' = "key"
    /\ UNCHANGED <<platform, auxVars, lifeVars, termVars, pc, lineVars, keyVars, prep>>

(***************************************************************************)
(* The key primitives, called by the application.                          *)
(***************************************************************************)
\* int getKey()
GetKeyCall ==
    /\ pc = "idle"
    /\ classInstances > 0
    /\ ops < MaxOps
    /\ \E o \in getKey(pending, platform) :
          /\ pending' = o.rest
          /\ lastRet' = o.ret
          /\ retUnspec' = o.unspec
    /\ headBefore' = pending
    /\ stale' = 0
    /\ ops' = ops + 1
    /\ ev' = "getKey"
    /\ UNCHANGED <<platform, auxVars, lifeVars, termVars, typed, pc, lineVars, prep>>

\* int waitForKey(): returns once a key can be read.
WaitForKeyCall ==
    /\ pc = "idle"
    /\ classInstances > 0
    /\ ops < MaxOps
    /\ \E o \in waitForKey(pending, platform) :
          /\ pending' = o.rest
          /\ lastRet' = o.ret
          /\ retUnspec' = o.unspec
    /\ headBefore' = pending
    /\ stale' = 0
    /\ ops' = ops + 1
    /\ ev' = "waitForKey"
    /\ UNCHANGED <<platform, auxVars, lifeVars, termVars, typed, pc, lineVars, prep>>

\* void clearKey()
ClearKeyCall ==
    /\ pc = "idle"
    /\ classInstances > 0
    /\ ops < MaxOps
    /\ \E r \in clearKey(pending, platform) : pending' = r
    /\ headBefore' = pending
    /\ stale' = 0
    /\ ops' = ops + 1
    /\ ev' = "clearKey"
    /\ UNCHANGED <<platform, auxVars, lifeVars, termVars, typed, pc, lineVars, lastRet,
                   retUnspec, prep>>

\* int waitForNewKey(): clearKey(); then the call waits in waitForKey().
WaitForNewKeyCall ==
    /\ pc = "idle"
    /\ classInstances > 0
    /\ ops < MaxOps
    /\ \E r \in clearKey(pending, platform) :
          /\ pending' = r
          /\ stale' = Len(r)
    /\ headBefore' = pending
    /\ ops' = ops + 1
    /\ pc' = "newkey"
    /\ ev' = "waitForNewKey_drained"
    /\ UNCHANGED <<platform, auxVars, lifeVars, termVars, typed, lineVars, lastRet,
                   retUnspec, prep>>

\* ... return waitForKey();
WaitForNewKeyReturn ==
    /\ pc = "newkey"
    /\ \E o \in waitForKey(pending, platform) :
          /\ pending' = o.rest
          /\ lastRet' = o.ret
          /\ retUnspec' = o.unspec
    /\ pc' = "idle"
    /\ ev' = "waitForNewKey"
    /\ UNCHANGED <<platform, auxVars, lifeVars, termVars, typed, lineVars, headBefore,
                   stale, ops, prep>>

(***************************************************************************)
(* waitForKey(int match): while (waitForKey() != match);                   *)
(***************************************************************************)
\* A loop test that goes on when the key is the one waited for.
MatchGoesOnInverted(ret, m) == ret = m

\* waitForKey() != match: the loop goes on after the key just read.
MatchGoesOn(ret, m) == ret # m

\* The call begins: nothing has been read yet.
WaitForKeyMatchCall(m) ==
    /\ pc = "idle"
    /\ classInstances > 0
    /\ ops < MaxOps
    /\ pc' = "match"
    /\ match' = m
    /\ reads' = <<>>
    /\ headBefore' = pending
    /\ stale' = 0
    /\ ops' = ops + 1
    /\ ev' = "call"
    /\ UNCHANGED <<platform, lifeVars, termVars, pending, typed, lineVars, lastRet,
                   retUnspec, prep, throttleInitialized, thrVars, colVars>>

\* One turn of the loop: a blocking read, then the test against match.
MatchIter ==
    /\ pc = "match"
    /\ \E o \in waitForKey(pending, platform) :
          /\ pending' = o.rest
          /\ lastRet' = o.ret
          /\ retUnspec' = o.unspec
          /\ reads' = Append(reads, o.ret)
          /\ pc' = IF MatchGoesOn(o.ret, match) THEN "match" ELSE "idle"
          /\ ev' = IF MatchGoesOn(o.ret, match) THEN "discard" ELSE "matched"
    /\ UNCHANGED <<platform, lifeVars, termVars, typed, lineVars, headBefore, stale,
                   ops, prep, match, throttleInitialized, thrVars, colVars>>

(***************************************************************************)
(* initColor and color.                                                    *)
(***************************************************************************)
\* A table write that keeps the bold flags the slot had.
StoreColorKeepBold(tbl, id, d) ==
    [tbl EXCEPT ![id] = COLOR(d.foreground, d.background,
                              tbl[id].foreBold, tbl[id].backBold)]

\* COLOR newColor = {fg, bg, fBold, bBold}; colors[colorId] = newColor;
StoreColor(tbl, id, d) == [tbl EXCEPT ![id] = d]

\* init_pair(n, f, b) on a terminal that has the colours and pairs asked for.
init_pair(P, n, f, b) == [P EXCEPT ![n] = [fg |-> f, bg |-> b]]

\* The background handed to init_pair: +8 is for adding the bold flag.
PairBackground(d) == IF d.backBold THEN d.background + 8 ELSE d.background

\* void initColor(COLOR_ID colorId, int fg, int bg, bool fBold, bool bBold)
InitColor(id, d) ==
    /\ pc = "idle"
    /\ classInstances > 0
    /\ IF platform = "WIN32"
       THEN /\ colors' = StoreColor(colors, id, d)
            /\ UNCHANGED <<foreBoldFlags, pairs>>
       ELSE /\ pairs' = init_pair(pairs, id + 1, d.foreground, PairBackground(d))
            /\ foreBoldFlags' = [foreBoldFlags EXCEPT ![id] = d.foreBold]
            /\ UNCHANGED colors
    /\ registered' = [registered EXCEPT ![id] = {d}]
    /\ ev' = "initColor"
    /\ UNCHANGED <<platform, lifeVars, termVars, pending, typed, pc, lineVars,
                   keyVars, prep, matchVars, throttleInitialized, thrVars, attr,
                   active>>

\* A red test that also takes black for a colour with red in it.
ForegroundRedAlsoBlack(c) ==
    c.foreground \in {COLOR_BLACK, COLOR_MAGENTA, COLOR_RED, COLOR_YELLOW, COLOR_WHITE}

\* The six colour tests of color(), in source order.
ForegroundRed(c) ==
    c.foreground \in {COLOR_MAGENTA, COLOR_RED, COLOR_YELLOW, COLOR_WHITE}
ForegroundGreen(c) ==
    c.foreground \in {COLOR_YELLOW, COLOR_GREEN, COLOR_CYAN, COLOR_WHITE}
ForegroundBlue(c) ==
    c.foreground \in {COLOR_CYAN, COLOR_BLUE, COLOR_MAGENTA, COLOR_WHITE}
BackgroundRed(c) ==
    c.background \in {COLOR_MAGENTA, COLOR_RED, COLOR_YELLOW, COLOR_WHITE}
BackgroundGreen(c) ==
    c.background \in {COLOR_YELLOW, COLOR_GREEN, COLOR_CYAN, COLOR_WHITE}
BackgroundBlue(c) ==
    c.background \in {COLOR_CYAN, COLOR_BLUE, COLOR_MAGENTA, COLOR_WHITE}

\* int colorFlags = 0; ... colorFlags |= ...: the flags set for curColor.
colorFlags(c) ==
    (IF c.foreBold THEN {"FOREGROUND_INTENSITY"} ELSE {}) \cup
    (IF c.backBold THEN {"BACKGROUND_INTENSITY"} ELSE {}) \cup
    (IF ForegroundRed(c) THEN {"FOREGROUND_RED"} ELSE {}) \cup
    (IF ForegroundGreen(c) THEN {"FOREGROUND_GREEN"} ELSE {}) \cup
    (IF ForegroundBlue(c) THEN {"FOREGROUND_BLUE"} ELSE {}) \cup
    (IF BackgroundRed(c) THEN {"BACKGROUND_RED"} ELSE {}) \cup
    (IF BackgroundGreen(c) THEN {"BACKGROUND_GREEN"} ELSE {}) \cup
    (IF BackgroundBlue(c) THEN {"BACKGROUND_BLUE"} ELSE {})

\* attrset(COLOR_PAIR(colorId + 1) | A_BOLD) or attrset(COLOR_PAIR(colorId + 1))
PairAttr(id, flags) == [pair |-> id + 1, bold |-> flags[id]]

\* void color(COLOR_ID colorId)
Color(id) ==
    /\ pc = "idle"
    /\ classInstances > 0
    /\ attr' = IF platform = "WIN32" THEN colorFlags(colors[id])
               ELSE PairAttr(id, foreBoldFlags)
    /\ active' = id
    /\ ev' = "color"
    /\ UNCHANGED <<platform, lifeVars, termVars, pending, typed, pc, lineVars,
                   keyVars, prep, matchVars, throttleInitialized, thrVars, colors,
                   foreBoldFlags, pairs, registered>>

(***************************************************************************)
(* sleepMs and throttle.  clock counts ticks of CLOCKS_PER_SEC to the      *)
(* second; sleepMs takes milliseconds.                                     *)
(***************************************************************************)
\* CLOCKS_PER_SEC of <ctime>: 1000 with the console build's C runtime,
\* 1000000 on a POSIX system.
CLOCKS_PER_SEC(plat) == IF plat = "WIN32" THEN 1000 ELSE 1000000

\* ms / 1000.0 * CLOCKS_PER_SEC
IntervalTicks(ms, plat) == (ms * CLOCKS_PER_SEC(plat)) \div 1000

\* The ticks that go by in ms milliseconds.
SleepTicks(ms, plat) == ms * (CLOCKS_PER_SEC(plat) \div 1000)

\* if (throttleLast > clock()): the call sleeps.
MustSleep(target, t) == target > t

\* sleepMs(throttleLast - clock()): the argument handed to sleepMs.
SleepArgument(target, t) == target - t

\* How far clock() moves while sleepMs(ms) blocks.  The console build's
\* clock() is the time elapsed; a POSIX clock() is the processor time of the
\* process, of which the sleeper itself uses none.
ClockDuringSleep(ms, plat) ==
    IF plat = "WIN32" THEN {SleepTicks(ms, plat)} ELSE {0, SleepTicks(ms, plat)}

\* void throttle(long ms)
Throttle(ms) ==
    /\ pc = "idle"
    /\ classInstances > 0
    /\ calls < MaxCalls
    /\ now' = clock
    /\ interval' = ms
    /\ calls' = calls + 1
    /\ IF throttleInitialized
       THEN LET target == throttleLast + IntervalTicks(ms, platform) IN
            /\ throttleLast' = target
            /\ throttleInitialized' = throttleInitialized
            /\ ev' = "throttle"
            /\ IF MustSleep(target, clock)
               THEN /\ slept' = TRUE
                    /\ sleptFor' = SleepArgument(target, clock)
                    /\ \E adv \in ClockDuringSleep(SleepArgument(target, clock),
                                                   platform) :
                          /\ clock' = clock + adv
                          /\ tracked' = (tracked /\ adv = SleepTicks(
                                            SleepArgument(target, clock), platform))
               ELSE /\ slept' = FALSE
                    /\ sleptFor' = 0
                    /\ UNCHANGED <<clock, tracked>>
       ELSE /\ throttleLast' = clock
            /\ throttleInitialized' = TRUE
            /\ ev' = "throttle_first"
            /\ slept' = FALSE
            /\ sleptFor' = 0
            /\ UNCHANGED <<clock, tracked>>
    /\ UNCHANGED <<platform, lifeVars, termVars, pending, typed, pc, lineVars,
                   keyVars, prep, matchVars, ticks, colVars>>

\* The caller's loop body runs for d milliseconds between two calls.
Tick(d) ==
    /\ pc = "idle"
    /\ ticks < MaxTicks
    /\ ticks' = ticks + 1
    /\ clock' = clock + SleepTicks(d, platform)
    /\ ev' = "tick"
    /\ UNCHANGED <<platform, lifeVars, termVars, pending, typed, pc, lineVars,
                   keyVars, prep, matchVars, throttleInitialized, throttleLast,
                   now, slept, sleptFor, interval, calls, tracked, colVars>>

(***************************************************************************)
(* waitForInput(std::string delineators): the line editor.                 *)
(***************************************************************************)
\* A delimiter test that looks at the first delimiter only.
MatchesFirstOnly(inp, d) == d # <<>> /\ inp = d[1]

\* for (i ...) if (input == delineators.at(i)) goto soSueMe;
MatchesDelineator(inp, d) == \E i \in 1..Len(d) : inp = d[i]

\* A pop_back() that removes nothing.
pop_back_noop(b) == b

\* str.pop_back()
pop_back(b) == SubSeq(b, 1, Len(b) - 1)

\* if (input == '\b'): the keystroke is handled as a backspace.
IsBackspace(inp) == inp = BS

\* The cell the cursor is sent to when a character is removed: the end of
\* the row above from column 0, else one column back.
EraseTarget(p) ==
    IF p.x = 0 THEN XY(getWindowSize.x - 1, p.y - 1) ELSE XY(p.x - 1, p.y)

\* A backspace branch that moves the cursor only when it removes a character.
BackspaceMoveNoRestore(c, p, b) ==
    IF b # <<>>
    THEN moveCursor(c, EraseTarget(p).x, EraseTarget(p).y)
    ELSE c

\* The cursor after the first moveCursor of the backspace branch, from the
\* cursor c the echo left, the captured position p and the buffer b.
BackspaceMove(c, p, b) ==
    IF b # <<>>
    THEN moveCursor(c, EraseTarget(p).x, EraseTarget(p).y)
    ELSE moveCursor(c, p.x, p.y)

\* The arguments of the first moveCursor of the backspace branch.
BackspaceTarget(p, b) == IF b # <<>> THEN EraseTarget(p) ELSE p

\* pos = getCurPos(); output(' '); moveCursor(pos.x, pos.y);
ClearCell(t, plat) ==
    { [s |-> t3.s, c |-> moveCursor(t3.c, t.c.x, t.c.y)] : t3 \in output(t, SP, plat) }

\* A test after the loop that never skips the rest of the line.
NeedsDrainNever(inp) == FALSE

\* if (input != '\n') after the loop: the rest of the line is to be skipped.
NeedsDrain(inp) == inp # NL

\* A skipping loop that no keystroke ends.
DrainGoesOnForever(i) == TRUE

\* while (echoKey() != '\n'): the skipping goes on after keystroke i.
DrainGoesOn(i) == i # NL

\* The call begins with an empty buffer.
WaitForInputCall(d) ==
    /\ pc = "idle"
    /\ classInstances > 0
    /\ pc' = "accum"
    /\ delineators' = d
    /\ str' = <<>>
    /\ hist' = <<>>
    /\ drained' = <<>>
    /\ startPos' = cur
    /\ moveTargets' = {}
    /\ ev' = "call"
    /\ UNCHANGED <<platform, auxVars, lifeVars, termVars, pending, typed, input, pos,
                   keyVars, prep>>

\* One turn of while (true): capture the cursor, echoKey(), handle the key.
LoopIter ==
    /\ pc = "accum"
    /\ \E e \in echoKey(pending, [s |-> screen, c |-> cur], platform) :
          LET inp == ToChar(e.ret) IN
          /\ pos' = cur
          /\ input' = inp
          /\ hist' = Append(hist, inp)
          /\ pending' = e.rest
          /\ lastRet' = e.ret
          /\ retUnspec' = e.unspec
          /\ IF IsBackspace(inp)
             THEN /\ str' = IF str # <<>> THEN pop_back(str) ELSE str
                  /\ \E t \in ClearCell([s |-> e.t.s,
                                         c |-> BackspaceMove(e.t.c, cur, str)],
                                        platform) :
                        /\ screen' = t.s
                        /\ cur' = t.c
                  /\ moveTargets' = {BackspaceTarget(cur, str),
                                      BackspaceMove(e.t.c, cur, str)}
                  /\ pc' = "accum"
                  /\ ev' = IF str # <<>> THEN "bs_erase" ELSE "bs_empty"
             ELSE /\ screen' = e.t.s
                  /\ cur' = e.t.c
                  /\ moveTargets' = {}
                  /\ IF MatchesDelineator(inp, delineators)
                     THEN /\ str' = str
                          /\ pc' = IF NeedsDrain(inp) THEN "drain" ELSE "done"
                          /\ ev' = "delim"
                     ELSE /\ str' = Append(str, inp)
                          /\ pc' = "accum"
                          /\ ev' = "append"
    /\ UNCHANGED <<platform, auxVars, lifeVars, typed, delineators, drained, startPos,
                   headBefore, stale, ops, prep>>

\* One turn of while (echoKey() != '\n');
DrainIter ==
    /\ pc = "drain"
    /\ \E e \in echoKey(pending, [s |-> screen, c |-> cur], platform) :
          /\ pending' = e.rest
          /\ lastRet' = e.ret
          /\ retUnspec' = e.unspec
          /\ screen' = e.t.s
          /\ cur' = e.t.c
          /\ drained' = Append(drained, e.ret)
          /\ pc' = IF DrainGoesOn(e.ret) THEN "drain" ELSE "done"
    /\ ev' = "drain"
    /\ UNCHANGED <<platform, auxVars, lifeVars, typed, delineators, str, input,
                   hist, pos, startPos, moveTargets, headBefore, stale, ops, prep>>

(***************************************************************************)
(* Specifications.                                                         *)
(***************************************************************************)
LineKeys == {<<BS>>, <<NL>>, <<BEL>>, <<ChX>>}

NamedKeys == {<<ChA>>, <<ChB>>, <<ChC>>}

Delineators == {<<NL>>, <<ChX>>, <<BS, NL>>}

\* The line editor: the application writes, moves the cursor and reads a line.
Next ==
    \/ AppOutput(ChZ)
    \/ \E x \in 0..(Cols - 1), y \in 0..(Rows - 1) : AppMoveCursor(x, y)
    \/ \E k \in LineKeys \cup NamedKeys : KeyArrives(k, k \in LineKeys)
    \/ \E d \in Delineators : WaitForInputCall(d)
    \/ LoopIter
    \/ DrainIter

Spec == Init /\ [][Next]_vars

\* Keys of the console build: a letter, Enter, four arrows under the two
\* prefix bytes, and F1 (a special key that is no arrow).
WinKeys == {<<ChA>>, <<CR>>, <<PREFIX0, 72>>, <<PREFIX0, 75>>, <<PREFIXE0, 80>>,
            <<PREFIXE0, 77>>, <<PREFIX0, ScanF1>>}

\* Keys of the curses build: keypad() makes getch() deliver one code per key.
PosixKeys == {<<ChA>>, <<CR>>, <<KEY_UP>>}

KeyKeys(plat) == IF plat = "WIN32" THEN WinKeys ELSE PosixKeys

\* The key primitives.
NextKey ==
    \/ \E k \in KeyKeys(platform) : KeyArrives(k, TRUE)
    \/ GetKeyCall
    \/ WaitForKeyCall
    \/ ClearKeyCall
    \/ WaitForNewKeyCall
    \/ WaitForNewKeyReturn

SpecKey == Init /\ [][NextKey]_vars


\* The codes a caller waits for: Enter, a letter, an arrow.
Matches == {NL, ChA, ARROW_UP}

\* The keys pressed while a caller waits: a letter, Enter and an arrow (under
\* either prefix byte on the console build).
MatchKeys(plat) ==
    IF plat = "WIN32" THEN {<<ChA>>, <<CR>>, <<PREFIX0, 72>>, <<PREFIXE0, 72>>}
    ELSE PosixKeys

\* waitForKey(int match) at work; the loop takes its next turn whenever a
\* key can be read.
NextMatch ==
    \/ \E k \in MatchKeys(platform) : KeyArrives(k, TRUE)
    \/ \E m \in Matches : WaitForKeyMatchCall(m)
    \/ MatchIter

SpecMatch == Init /\ [][NextMatch]_vars /\ WF_vars(MatchIter)

\* The intervals asked for and the running times of the loop body, in ms.
Intervals == {0, 1, 2}
Work == {1, 3}

\* A loop paced by throttle.
NextThrottle ==
    \/ \E ms \in Intervals : Throttle(ms)
    \/ \E d \in Work : Tick(d)

SpecThrottle == Init /\ [][NextThrottle]_vars

\* Three descriptors that differ from one another in every field.
SampleDescriptors ==
    {DefaultColor, COLOR(COLOR_RED, COLOR_BLUE, TRUE, FALSE),
     COLOR(COLOR_WHITE, COLOR_GREEN, FALSE, TRUE)}

\* Every descriptor over the eight colours and the two bold flags.
AllDescriptors ==
    {COLOR(f, b, fb, bb) : f \in StandardColors, b \in StandardColors,
                           fb \in BOOLEAN, bb \in BOOLEAN}

\* Sessions in which colours are registered and activated.
NextColor ==
    \/ Construct
    \/ Destroy
    \/ \E id \in ColorIds, d \in SampleDescriptors : InitColor(id, d)
    \/ \E id \in ColorIds : Color(id)

SpecColor == Init /\ [][NextColor]_vars

\* One slot registered once, with any descriptor, and activated.
NextFlags ==
    \/ \E d \in AllDescriptors : registered[0] = {} /\ InitColor(0, d)
    \/ Color(0)

SpecFlags == Init /\ [][NextFlags]_vars

\* Keys and delimiter sets for reading a line to its end: backspace, Enter
\* (which both builds deliver as a newline) and a letter.
FairKeys == {<<BS>>, <<CR>>, <<ChX>>}
FairDelineators == {<<BS>>, <<ChX>>, <<NL>>}

\* readLine with a caller that does nothing else; the two loops take their
\* next turn whenever a key can be read.
NextFair ==
    \/ \E k \in FairKeys : KeyArrives(k, TRUE)
    \/ \E d \in FairDelineators : WaitForInputCall(d)
    \/ LoopIter
    \/ DrainIter

SpecFair == Init /\ [][NextFair]_vars /\ WF_vars(LoopIter) /\ WF_vars(DrainIter)

\* Handles come and go; the application draws while it holds one.
NextLife ==
    \/ Construct
    \/ Destroy
    \/ AppOutput(ChZ)
    \/ \E x \in 0..(Cols - 1), y \in 0..(Rows - 1) : AppMoveCursor(x, y)

SpecLife == Init0 /\ [][NextLife]_vars

(***************************************************************************)
(* Properties.                                                             *)
(***************************************************************************)
\* C1: in every step that constructs a handle the set-up block runs exactly
\* when the instance count was 0 (and no tear-down runs); in every step
\* that destroys a handle the tear-down block runs exactly when the count
\* returns to 0 (and no set-up runs); raw mode is active exactly when the
\* count is greater than 0.
C1_SetupOncePerSession ==
    [][ /\ (classInstances' = classInstances + 1) =>
              /\ setups' = setups + (IF classInstances = 0 THEN 1 ELSE 0)
              /\ teardowns' = teardowns
        /\ (classInstances' = classInstances - 1) =>
              /\ teardowns' = teardowns + (IF classInstances' = 0 THEN 1 ELSE 0)
              /\ setups' = setups
        /\ (classInstances' = classInstances) =>
              /\ setups' = setups
              /\ teardowns' = teardowns
        /\ rawMode <=> (classInstances > 0)
        /\ rawMode' <=> (classInstances' > 0) ]_vars

\* C1 witness: a second session has begun and holds two nested handles.
C1_Witness ==
    /\ setups = 2
    /\ teardowns = 1
    /\ classInstances = 2
    /\ rawMode

\* The buffer after one keystroke that does not end the line: a backspace
\* removes the last character if there is one, any other keystroke is added.
EditStep(b, k) ==
    IF k = BS THEN (IF b = <<>> THEN b ELSE Front(b)) ELSE Append(b, k)

RECURSIVE EditBuffer(_, _)
EditBuffer(h, b) ==
    IF h = <<>> THEN b ELSE EditBuffer(Tail(h), EditStep(b, Head(h)))

InDelineators(k, d) == k \in {d[i] : i \in 1..Len(d)}

\* The keystrokes of h before the first one that is in the delimiter set.
RECURSIVE UpToFirstDelimiter(_, _)
UpToFirstDelimiter(h, d) ==
    IF h = <<>> \/ InDelineators(Head(h), d) THEN <<>>
    ELSE <<Head(h)>> \o UpToFirstDelimiter(Tail(h), d)

\* The keystrokes of h before the first one that is in the delimiter set and
\* is not a backspace.
RECURSIVE UpToFirstTerminator(_, _)
UpToFirstTerminator(h, d) ==
    IF h = <<>> \/ (Head(h) # BS /\ InDelineators(Head(h), d)) THEN <<>>
    ELSE <<Head(h)>> \o UpToFirstTerminator(Tail(h), d)

\* C2 as stated: the returned buffer is what the keystrokes before the
\* first delimiter build (ordinary keystrokes added, backspaces removing).
C2_ResultUpToFirstDelimiter ==
    pc = "done" => str = EditBuffer(UpToFirstDelimiter(hist, delineators), <<>>)

\* C2 amended: the returned buffer is what the keystrokes before the first
\* delimiter other than a backspace build; that delimiter is not in it.  A
\* backspace is always an edit, also when it is in the delimiter set.
C2_ResultUpToFirstTerminator ==
    pc = "done" =>
        /\ str = EditBuffer(UpToFirstTerminator(hist, delineators), <<>>)
        /\ Len(UpToFirstTerminator(hist, delineators)) = Len(hist) - 1

\* C2 witness: "ab\b\bc\n" with delimiter newline has returned "c".
C2_Witness ==
    /\ pc = "done"
    /\ delineators = <<NL>>
    /\ hist = <<ChA, ChB, BS, BS, ChC, NL>>
    /\ str = <<ChC>>

\* C3 as stated: a keystroke that is in the delimiter set, a backspace
\* included, ends the loop and leaves the buffer as it was.
C3_AnyDelimiterEndsLoop ==
    [][ (pc = "accum" /\ hist' # hist /\ InDelineators(input', delineators)) =>
            (pc' \in {"drain", "done"} /\ str' = str) ]_vars

\* C3 amended: a keystroke other than a backspace that is in the delimiter
\* set ends the loop and leaves the buffer as it was.
C3_DelimiterEndsLoop ==
    [][ (pc = "accum" /\ hist' # hist /\ input' # BS
            /\ InDelineators(input', delineators)) =>
            (pc' \in {"drain", "done"} /\ str' = str) ]_vars

\* C3 witness: 'x' has ended the loop of a read with a non-empty buffer.
C3_Witness ==
    /\ pc = "drain"
    /\ ev = "delim"
    /\ input = ChX
    /\ str # <<>>
    /\ Len(hist) = Len(str) + 1

\* The cell before p: one column left, or the end of the row above.
CellBefore(p) == IF p.x = 0 THEN XY(Cols - 1, p.y - 1) ELSE XY(p.x - 1, p.y)

\* C4 as stated: after a backspace on a non-empty buffer the cursor rests on
\* the cell before the position captured before the keystroke, and that
\* cell holds a space.
C4_EraseLandsOnCellBefore ==
    ev = "bs_erase" =>
        /\ cur = CellBefore(pos)
        /\ InWindow(cur)
        /\ screen[cur.y][cur.x] = SP

\* C5 as stated: a backspace on an empty buffer leaves the buffer empty,
\* the cursor where it was before the keystroke, and the screen as it was.
C5_EmptyBackspaceErasesNothing ==
    [][ (pc = "accum" /\ hist' # hist /\ input' = BS /\ str = <<>>) =>
            (str' = <<>> /\ cur' = cur /\ screen' = screen) ]_vars

\* C5 amended: a backspace on an empty buffer leaves the buffer empty and
\* the cursor on the position captured before the keystroke, and the cell
\* under the cursor then holds a space (whatever it showed before).
C5_EmptyBackspaceKeepsCursor ==
    ev = "bs_empty" =>
        /\ str = <<>>
        /\ cur = pos
        /\ screen[cur.y][cur.x] = SP

\* C5 witness: an empty-buffer backspace was handled away from the left
\* edge, where its echo moves the cursor.
C5_Witness ==
    /\ ev = "bs_empty"
    /\ pos.x > 0
    /\ hist = <<BS>>

\* C6: the call returns only after a newline, which is the last keystroke
\* it reads; when the delimiter that ended the loop is a newline nothing
\* is read after it, otherwise keystrokes are read up to and including the
\* first newline; none of them changes the buffer the loop left.
C6_ReturnsAfterNewline ==
    /\ pc = "done" =>
          /\ ToChar(lastRet) = NL
          /\ IF input = NL THEN drained = <<>>
             ELSE /\ drained # <<>>
                  /\ drained[Len(drained)] = NL
                  /\ \A i \in 1..(Len(drained) - 1) : drained[i] # NL
    /\ pc = "drain" => (input # NL /\ \A i \in 1..Len(drained) : drained[i] # NL)
    /\ pc \in {"drain", "done"} =>
          /\ hist # <<>>
          /\ str = EditBuffer(Front(hist), <<>>)

\* C6 witness: the loop ended on 'x' and two keystrokes were skipped, the
\* second of them the newline.
C6_Witness ==
    /\ pc = "done"
    /\ input = ChX
    /\ Len(drained) = 2
    /\ drained[2] = NL

\* The arrow a second byte stands for.
ArrowOf(second) ==
    IF second = 72 THEN ARROW_UP
    ELSE IF second = 80 THEN ARROW_DOWN
    ELSE IF second = 75 THEN ARROW_LEFT
    ELSE ARROW_RIGHT

\* q is one two-byte arrow-key sequence and nothing else.
IsArrowSequence(q) ==
    /\ Len(q) = 2
    /\ q[1] \in {PREFIX0, PREFIXE0}
    /\ q[2] \in {72, 80, 75, 77}

\* C7 as stated: on the build that reads two-byte sequences, waitForKey()
\* with one arrow-key sequence pending, under either prefix byte, returns
\* the arrow's sentinel and leaves nothing of the sequence in the queue.
C7_ArrowSequenceDecoded ==
    (platform = "WIN32" /\ ev = "waitForKey" /\ IsArrowSequence(headBefore)) =>
        /\ lastRet = ArrowOf(headBefore[2])
        /\ pending = <<>>

\* An ordinary key: one byte that is no carriage return and no prefix byte.
OrdinaryByte(b) == b > 0 /\ b < 128 /\ b # CR

\* C8 as stated: getKey() with a key pending and waitForKey() return the
\* key's own code for an ordinary key and newline for a carriage return,
\* and the value is never an unspecified one.
C8_KeyCodeReturned ==
    (ev \in {"getKey", "waitForKey"} /\ headBefore # <<>>) =>
        /\ ~retUnspec
        /\ OrdinaryByte(headBefore[1]) => lastRet = headBefore[1]
        /\ headBefore[1] = CR => lastRet = NL

\* C9: getKey() with no key pending returns 0, a value the code states,
\* and leaves the queue empty; the call is not held up by the empty queue.
C9_PollOnEmptyQueue ==
    /\ (ev = "getKey" /\ headBefore = <<>>) =>
          /\ lastRet = 0
          /\ ~retUnspec
          /\ pending = <<>>
    /\ getKey(<<>>, platform) # {}

\* C9 witness: a poll found the queue empty after earlier keys were read.
C9_Witness ==
    /\ ev = "getKey"
    /\ headBefore = <<>>
    /\ typed # <<>>
    /\ lastRet = 0

\* C10 as stated: when clearKey() has returned no key is pending, and
\* waitForNewKey() never returns a key that was pending before the call.
C10_DrainLeavesNothing ==
    /\ ev = "clearKey" => pending = <<>>
    /\ ev = "waitForNewKey_drained" => pending = <<>>
    /\ ev = "waitForNewKey" => stale = 0


\* Every way the reads can go from the queue q delivers the code m.
RECURSIVE CertainlyDelivers(_, _, _)
CertainlyDelivers(q, plat, m) ==
    /\ waitForKey(q, plat) # {}
    /\ \A o \in waitForKey(q, plat) :
          o.ret = m \/ CertainlyDelivers(o.rest, plat, m)

\* While the call waits no code read equals match; when it has returned the
\* last code read equals match and no earlier one does.
MatchReturnsAtFirstMatch ==
    /\ pc = "match" => \A i \in 1..Len(reads) : reads[i] # match
    /\ ev = "matched" =>
          /\ reads # <<>>
          /\ reads[Len(reads)] = match
          /\ lastRet = match
          /\ \A i \in 1..(Len(reads) - 1) : reads[i] # match

\* C11: waitForKey(match) returns only after a read has delivered the code
\* match, every code read before it differs from match (it is discarded) and
\* the call stops at the first read that delivers match; and whenever the
\* pending keys are certain to deliver match, the call returns.
C11_WaitsForMatch ==
    /\ []MatchReturnsAtFirstMatch
    /\ (pc = "match" /\ CertainlyDelivers(pending, platform, match))
           ~> (pc = "idle" /\ ev = "matched")

\* The call has returned after discarding at least one key.
C11_Witness == ev = "matched" /\ Len(reads) >= 2 /\ reads[1] # match


\* A throttle call as described: the first call stores the tick count and
\* does not sleep; a later call moves the stored target on by the interval
\* in ticks and sleeps, exactly when the tick count is below the new target,
\* for the time that the difference of ticks amounts to.
ThrottleAsDescribed ==
    calls' = calls + 1 =>
        IF ~throttleInitialized
        THEN throttleLast' = clock /\ ~slept'
        ELSE /\ throttleLast' = throttleLast + interval' * (CLOCKS_PER_SEC(platform) \div 1000)
             /\ slept' <=> clock < throttleLast'
             /\ slept' => SleepTicks(sleptFor', platform) = throttleLast' - clock

\* C12: every throttle call is as described; so the second of two calls in
\* immediate succession blocks for the interval asked for.
C12_SleepsForTheDifference == [][ThrottleAsDescribed]_vars

\* C13: a throttle call with interval 0 performs no sleep, whatever calls
\* came before it.
C13_ZeroIntervalNeverSleeps ==
    (ev \in {"throttle", "throttle_first"} /\ interval = 0) => ~slept

\* C16: while the clock has advanced by the slept time in every sleep, the
\* stored target is not ahead of the tick count after a call returns and no
\* call sleeps longer than its own interval.
C16_SleepBoundedByInterval ==
    (tracked /\ ev \in {"throttle", "throttle_first"}) =>
        /\ throttleLast <= clock
        /\ slept => sleptFor <= interval


\* The colours that contain red, green and blue.
HasRed == {COLOR_RED, COLOR_YELLOW, COLOR_MAGENTA, COLOR_WHITE}
HasGreen == {COLOR_GREEN, COLOR_YELLOW, COLOR_CYAN, COLOR_WHITE}
HasBlue == {COLOR_BLUE, COLOR_CYAN, COLOR_MAGENTA, COLOR_WHITE}

\* The flags a descriptor stands for, component by component.
ExpectedFlags(d) ==
    {f \in {"FOREGROUND_RED", "FOREGROUND_GREEN", "FOREGROUND_BLUE",
            "FOREGROUND_INTENSITY", "BACKGROUND_RED", "BACKGROUND_GREEN",
            "BACKGROUND_BLUE", "BACKGROUND_INTENSITY"} :
        \/ f = "FOREGROUND_RED" /\ d.foreground \in HasRed
        \/ f = "FOREGROUND_GREEN" /\ d.foreground \in HasGreen
        \/ f = "FOREGROUND_BLUE" /\ d.foreground \in HasBlue
        \/ f = "FOREGROUND_INTENSITY" /\ d.foreBold
        \/ f = "BACKGROUND_RED" /\ d.background \in HasRed
        \/ f = "BACKGROUND_GREEN" /\ d.background \in HasGreen
        \/ f = "BACKGROUND_BLUE" /\ d.background \in HasBlue
        \/ f = "BACKGROUND_INTENSITY" /\ d.backBold}

\* The colour with the given components.
ColourOf(r, g, b) ==
    CHOOSE c \in StandardColors :
        (c \in HasRed <=> r) /\ (c \in HasGreen <=> g) /\ (c \in HasBlue <=> b)

\* The descriptor a colour pair and a bold flag stand for; pair 0 is the
\* terminal's own light grey on black.
OfPair(n, bold) ==
    IF n = 0 THEN COLOR(COLOR_WHITE, COLOR_BLACK, bold, FALSE)
    ELSE COLOR(pairs[n].fg, pairs[n].bg % 8, bold, pairs[n].bg >= 8)

\* The descriptor the table holds for an id.
Descriptor(id) ==
    IF platform = "WIN32" THEN colors[id] ELSE OfPair(id + 1, foreBoldFlags[id])

\* The descriptor a text attribute shows on the screen.
Shown(a) ==
    IF platform = "WIN32"
    THEN COLOR(ColourOf("FOREGROUND_RED" \in a, "FOREGROUND_GREEN" \in a,
                        "FOREGROUND_BLUE" \in a),
               ColourOf("BACKGROUND_RED" \in a, "BACKGROUND_GREEN" \in a,
                        "BACKGROUND_BLUE" \in a),
               "FOREGROUND_INTENSITY" \in a, "BACKGROUND_INTENSITY" \in a)
    ELSE OfPair(a.pair, a.bold)

C15_DefaultSlotShowsTerminalDefault ==
    (ev = "color" /\ registered[active] = {} /\ Descriptor(active) = DefaultColor)
        => Shown(attr) = Shown(DefaultAttr(platform))

\* C17: on the console build activateColor sets, for the descriptor
\* registered for the id, exactly the flags the descriptor stands for: the
\* red, green and blue flags of the components its colours contain, the
\* intensity flags of its bold flags, and no other flag.
C17_FlagsFollowDescriptor ==
    (platform = "WIN32" /\ ev = "color" /\ registered[active] # {})
        => registered[active] = {d \in AllDescriptors : attr = ExpectedFlags(d)}

\* Yellow and bold on cyan has been activated.
C17_Witness ==
    /\ platform = "WIN32"
    /\ ev = "color"
    /\ registered[active] = {COLOR(COLOR_YELLOW, COLOR_CYAN, TRUE, FALSE)}
    /\ attr = {"FOREGROUND_RED", "FOREGROUND_GREEN", "FOREGROUND_INTENSITY",
               "BACKGROUND_GREEN", "BACKGROUND_BLUE"}

\* A construction as described: with no handle alive it leaves the default
\* descriptor in every slot; with a handle alive it leaves the table as it is.
ConstructResetsTable ==
    classInstances' = classInstances + 1 =>
        IF classInstances = 0
        THEN \A id \in ColorIds : Descriptor(id)' = DefaultColor
        ELSE \A id \in ColorIds : Descriptor(id)' = Descriptor(id)

\* C18: every construction is as described, so no colour registered in an
\* earlier session is in effect after a new set-up.
C18_SetupResetsColorTable == [][ConstructResetsTable]_vars


\* C19: every cell the line editor moves the cursor to lies inside the
\* window (0 <= column < columns, 0 <= row < rows), whatever keys are read,
\* a backspace with a non-empty buffer at column 0 of row 0 included.
C19_MovesStayInWindow == \A t \in moveTargets : InWindow(t)


\* A newline has been delivered at or after keystroke i of the loop.
NewlineFrom(i) ==
    \/ \E j \in i..Len(hist) : hist[j] = NL
    \/ \E j \in 1..Len(drained) : drained[j] = NL

\* The call has been delivered a character of its delimiter set and, at or
\* after it, a newline.
DelimiterThenNewline ==
    /\ pc \in {"accum", "drain", "done"}
    /\ \E i \in 1..Len(hist) : InDelineators(hist[i], delineators) /\ NewlineFrom(i)

\* The same with a delimiter that is not a backspace.
TerminatorThenNewline ==
    /\ pc \in {"accum", "drain", "done"}
    /\ \E i \in 1..Len(hist) :
          /\ InDelineators(hist[i], delineators)
          /\ hist[i] # BS
          /\ NewlineFrom(i)

\* Every way the reads can go from the queue q, in phase ph of the call with
\* delimiter set d, ends the call.
RECURSIVE CertainlyReturns(_, _, _, _)
CertainlyReturns(q, ph, d, plat) ==
    \/ ph = "done"
    \/ /\ waitForKey(q, plat) # {}
       /\ \A o \in waitForKey(q, plat) :
             CertainlyReturns(o.rest,
                 IF ph = "drain"
                 THEN (IF o.ret = NL THEN "done" ELSE "drain")
                 ELSE IF ToChar(o.ret) = BS \/ ~InDelineators(ToChar(o.ret), d)
                 THEN "accum"
                 ELSE IF ToChar(o.ret) = NL THEN "done" ELSE "drain",
                 d, plat)

\* C20 as stated: once a character of the delimiter set and, at or after it,
\* a newline have been delivered, the call returns.
C20_ReturnsAfterDelimiterAndNewline == DelimiterThenNewline ~> (pc = "done")

\* C20: once a character of the delimiter set other than backspace and, at
\* or after it, a newline have been delivered, the call has returned and
\* reads nothing more; and whenever the pending keys are certain to deliver
\* such keystrokes, the call returns.
C20_ReturnsAfterTerminatorAndNewline ==
    /\ [](TerminatorThenNewline => pc = "done")
    /\ (pc \in {"accum", "drain"}
            /\ CertainlyReturns(pending, pc, delineators, platform))
           ~> (pc = "done")

\* The loop ended on 'x' and a newline was delivered after it.
C20_Witness ==
    /\ pc = "done"
    /\ delineators = <<ChX>>
    /\ hist # <<>> /\ hist[Len(hist)] = ChX
    /\ drained # <<>> /\ drained[Len(drained)] = NL

====
